---- MODULE Spec2Model ----
(***************************************************************************)
(* Model of the admin dashboard of secure-availability: the filter/sort    *)
(* pipeline of AdminDashboard.tsx (filteredEntries) and the calendar       *)
(* projection of AvailabilityCalendar.tsx (getEntriesForDate).             *)
(*                                                                         *)
(* Representation.                                                         *)
(*  - A JavaScript string is a sequence of one-character strings, so that  *)
(*    split, trim, toLowerCase, includes and the relational operators on   *)
(*    strings are computed, not assumed.  null is the value NULL.          *)
(*  - A calendar date 'YYYY-MM-DD' (a DATE column, or the value of an      *)
(*    <input type="date">) is the day number d of January 2025, so day 1   *)
(*    is Wednesday 2025-01-01 and day 6 is Monday 2025-01-06.  A null or   *)
(*    empty date is NoDate.                                                *)
(*  - A JavaScript Date is its time value in hours since 2024-12-31T00:00Z.*)
(*    new Date('YYYY-MM-DD') is UTC midnight, parseISO('YYYY-MM-DD') and   *)
(*    the calendar's cells are local midnight; tz is the browser's offset  *)
(*    east of UTC in hours.                                                *)
(*  - A nullable boolean column is one of "true", "false", "null".         *)
(***************************************************************************)
EXTENDS Integers, Sequences, FiniteSets, TLC

VARIABLES
    entries,            \* useState<AvailabilityEntry[]>: the merged snapshot
    searchTerm,         \* text search input
    filterShiftType,    \* "all" or a shift type
    filterLocation,     \* "all" or a location label
    filterMobile,       \* "all", "yes" or "no"
    filterRecurring,    \* "all", "yes" or "no"
    searchDate,         \* value of the date input, NoDate when empty
    searchTime,         \* value of the time input 'HH:MM', empty when unset
    selectedWeekdays,   \* array of weekday names toggled in the filter bar
    sortField,
    sortDirection,
    selectedDate,       \* AvailabilityCalendar: clicked day (a Date) or NoDate
    tz,                 \* browser time zone, hours east of UTC
    today,              \* the local calendar day of the clock
    loading,            \* AdminDashboard: useState(true)
    fetches,            \* the calls of fetchEntries in order of start, with their locals
    availability,       \* backend: the rows of table availability
    profiles,           \* backend: the rows of table profiles
    availabilityType,   \* AvailabilityForm: selected type
    formWeekdays        \* AvailabilityForm: selectedWeekdays

filterVars == <<searchTerm, filterShiftType, filterLocation, filterMobile,
                filterRecurring, searchDate, searchTime, selectedWeekdays>>
sortVars == <<sortField, sortDirection>>
fetchVars == <<loading, fetches>>
backendVars == <<availability, profiles>>
formVars == <<availabilityType, formWeekdays>>
restVars == <<today, fetchVars, backendVars, formVars>>
vars == <<entries, filterVars, sortVars, selectedDate, tz, restVars>>

-----------------------------------------------------------------------------
(* Bounds *)

MaxEntries == 2
MaxDay == 14
MaxSearchDay == 5
MaxActiveFilters == 2
MaxSortEntries == 3
MaxSubmitted == 2
MaxFetches == 3

-----------------------------------------------------------------------------
(* JavaScript strings *)

NULL == <<"null">>
EmptyStr == <<>>
NoDate == 0
UNDEFINED == 0 - 1

Upper == <<"A","B","C","D","E","F","G","H","I","J","K","L","M",
           "N","O","P","Q","R","S","T","U","V","W","X","Y","Z">>
Lower == <<"a","b","c","d","e","f","g","h","i","j","k","l","m",
           "n","o","p","q","r","s","t","u","v","w","x","y","z">>

UpperCase == { Upper[i] : i \in 1..Len(Upper) }
LowerOf == [c \in UpperCase |-> Lower[CHOOSE i \in 1..Len(Upper) : Upper[i] = c]]

ToLowerChar(c) == IF c \in UpperCase THEN LowerOf[c] ELSE c

ToLowerCase(s) == [i \in 1..Len(s) |-> ToLowerChar(s[i])]

\* String.prototype.includes
Includes(s, sub) ==
    \E i \in 0..(Len(s) - Len(sub)) : SubSeq(s, i + 1, i + Len(sub)) = sub

\* String.prototype.split(sep) for a one-character separator
RECURSIVE Split(_, _)
Split(s, sep) ==
    IF \E i \in 1..Len(s) : s[i] = sep
    THEN LET i == CHOOSE k \in 1..Len(s) :
                     s[k] = sep /\ \A j \in 1..(k - 1) : s[j] # sep
         IN  <<SubSeq(s, 1, i - 1)>> \o Split(SubSeq(s, i + 1, Len(s)), sep)
    ELSE <<s>>

\* String.prototype.trim
RECURSIVE Trim(_)
Trim(s) ==
    IF s = <<>> THEN s
    ELSE IF Head(s) = " " THEN Trim(Tail(s))
    ELSE IF s[Len(s)] = " " THEN Trim(SubSeq(s, 1, Len(s) - 1))
    ELSE s

\* Array.prototype.includes
ArrIncludes(arr, x) == \E i \in 1..Len(arr) : arr[i] = x

\* Array.prototype.join(",")
RECURSIVE Join(_)
Join(arr) ==
    IF arr = <<>> THEN <<>>
    ELSE IF Len(arr) = 1 THEN arr[1]
    ELSE arr[1] \o <<",">> \o Join(Tail(arr))

\* JavaScript truthiness of a nullable string
Truthy(s) == s # NULL /\ s # EmptyStr

\* s || ''
OrEmpty(s) == IF Truthy(s) THEN s ELSE EmptyStr

\* UTF-16 code unit order of the characters that occur in the data
CodeOrder == <<" ", ",", "0","1","2","3","4","5","6","7","8","9",":">>
                 \o Upper \o Lower \o <<"ä","ö","ü">>
CharCode(c) == CHOOSE i \in 1..Len(CodeOrder) : CodeOrder[i] = c

\* a < b on strings: code unit by code unit, a proper prefix is smaller
RECURSIVE StrLess(_, _)
StrLess(a, b) ==
    IF b = <<>> THEN FALSE
    ELSE IF a = <<>> THEN TRUE
    ELSE IF CharCode(Head(a)) < CharCode(Head(b)) THEN TRUE
    ELSE IF CharCode(Head(a)) > CharCode(Head(b)) THEN FALSE
    ELSE StrLess(Tail(a), Tail(b))

StrGeq(a, b) == ~StrLess(a, b)
StrLeq(a, b) == ~StrLess(b, a)

-----------------------------------------------------------------------------
(* Dates *)

\* new Date(0), the epoch 1970-01-01T00:00Z, in hours relative to
\* 2024-12-31T00:00Z
EpochTime == 0 - 482112

\* the time value of an Invalid Date (NaN)
InvalidDate == 0 - 999999999

\* new Date('YYYY-MM-DD'): UTC midnight; new Date(null) is the epoch
NewDate(d) == IF d = NoDate THEN EpochTime ELSE d * 24

\* parseISO('YYYY-MM-DD'), and the Date of a calendar cell: local midnight;
\* parseISO of a value that is not a string is an Invalid Date
ParseISO(d) == IF d = NoDate THEN InvalidDate ELSE d * 24 - tz

\* local calendar day of a Date
LocalDay(ts) == (ts + tz) \div 24

\* Date.prototype.getDay: 0 = Sunday; day 1 (2025-01-01) is a Wednesday
GetDay(ts) == (LocalDay(ts) + 2) % 7

\* date-fns isSameDay; the time values of two Invalid Dates are not equal
IsSameDay(a, b) ==
    a # InvalidDate /\ b # InvalidDate /\ LocalDay(a) = LocalDay(b)

\* date-fns isWithinInterval (date-fns 3 and later: the interval is
\* normalised, so start and end may come in either order; no comparison
\* with the time value of an Invalid Date is true)
IsWithinInterval(ts, start, end) ==
    LET lo == IF start <= end THEN start ELSE end
        hi == IF start <= end THEN end ELSE start
    IN  IF InvalidDate \in {ts, start, end} THEN FALSE
        ELSE ts >= lo /\ ts <= hi

-----------------------------------------------------------------------------
(* String literals used by the code and by the data *)

sunday    == <<"s","u","n","d","a","y">>
monday    == <<"m","o","n","d","a","y">>
tuesday   == <<"t","u","e","s","d","a","y">>
wednesday == <<"w","e","d","n","e","s","d","a","y">>
thursday  == <<"t","h","u","r","s","d","a","y">>
friday    == <<"f","r","i","d","a","y">>
saturday  == <<"s","a","t","u","r","d","a","y">>

earlyShift == <<"e","a","r","l","y","S","h","i","f","t">>
lateShift  == <<"l","a","t","e","S","h","i","f","t">>
nightShift == <<"n","i","g","h","t","S","h","i","f","t">>
flexible   == <<"f","l","e","x","i","b","l","e">>

all == <<"a","l","l">>
yes == <<"y","e","s">>
no  == <<"n","o">>

Koeln == <<"K","ö","l","n">>
Essen == <<"E","s","s","e","n">>
KoelnSued == <<"K","ö","l","n"," ","S","ü","d">>

\* 'HH:MM', the value of <input type="time">
HHMM(h1, h2, m1, m2) == <<h1, h2, ":", m1, m2>>
\* 'HH:MM:SS', a TIME column as the backend returns it
HHMMSS(h1, h2, m1, m2) == <<h1, h2, ":", m1, m2, ":", "0", "0">>

\* a map that numbers the week from Monday
WEEKDAY_MAP_MondayFirst(name) ==
    CASE name = monday    -> 0
      [] name = tuesday   -> 1
      [] name = wednesday -> 2
      [] name = thursday  -> 3
      [] name = friday    -> 4
      [] name = saturday  -> 5
      [] name = sunday    -> 6
      [] OTHER            -> UNDEFINED

\* WEEKDAY_MAP[name]; UNDEFINED for a key the map does not have
WEEKDAY_MAP(name) ==
    CASE name = sunday    -> 0
      [] name = monday    -> 1
      [] name = tuesday   -> 2
      [] name = wednesday -> 3
      [] name = thursday  -> 4
      [] name = friday    -> 5
      [] name = saturday  -> 6
      [] OTHER            -> UNDEFINED

-----------------------------------------------------------------------------
(* AvailabilityEntry *)

AvailabilityEntry(id, owner, date, end_date, times, shift_type, location, mobile_deployable, is_recurring, weekdays) ==
    [ id                |-> id,
      user_id           |-> owner.user_id,
      date              |-> date,
      end_date          |-> end_date,
      start_time        |-> times[1],
      end_time          |-> times[2],
      shift_type        |-> shift_type,
      location          |-> location,
      mobile_deployable |-> mobile_deployable,
      notes             |-> NULL,
      is_recurring      |-> is_recurring,
      weekdays          |-> weekdays,
      created_at        |-> NoDate,
      first_name        |-> owner.first_name,
      last_name         |-> owner.last_name,
      phone_number      |-> owner.phone_number,
      guard_id_number   |-> owner.guard_id_number,
      e_pin_number      |-> owner.e_pin_number ]

-----------------------------------------------------------------------------
(* filteredEntries: the filter stages of AdminDashboard.tsx, in code order. *)
(* c is the record of the eight criteria.                                   *)

Criteria ==
    [ searchTerm       |-> searchTerm,
      filterShiftType  |-> filterShiftType,
      filterLocation   |-> filterLocation,
      filterMobile     |-> filterMobile,
      filterRecurring  |-> filterRecurring,
      searchDate       |-> searchDate,
      searchTime       |-> searchTime,
      selectedWeekdays |-> selectedWeekdays ]

\* `${entry.first_name} ${entry.last_name}`
FullName(e) == e.first_name \o <<" ">> \o e.last_name

\* a search callback that does not look at the two id numbers
MatchesSearch_WithoutIds(e, c) ==
    LET search == ToLowerCase(c.searchTerm)
        searchableFields ==
            << FullName(e), e.phone_number, e.location, e.notes, e.shift_type,
               e.weekdays >>
    IN  \E i \in 1..Len(searchableFields) :
            Includes(ToLowerCase(OrEmpty(searchableFields[i])), search)

\* the callback of the text search
MatchesSearch(e, c) ==
    LET search == ToLowerCase(c.searchTerm)
        searchableFields ==
            << FullName(e), e.phone_number, e.location, e.notes, e.shift_type,
               e.weekdays, e.guard_id_number, e.e_pin_number >>
    IN  \E i \in 1..Len(searchableFields) :
            Includes(ToLowerCase(OrEmpty(searchableFields[i])), search)

MatchesShiftType(e, c) == e.shift_type = c.filterShiftType

\* a location callback that looks for the criterion inside the column
MatchesLocation_Substring(e, c) == Includes(e.location, c.filterLocation)

MatchesLocation(e, c) ==
    LET labels == Split(e.location, ",")
    IN  ArrIncludes([i \in 1..Len(labels) |-> Trim(labels[i])], c.filterLocation)

MatchesMobile(e, c) == e.mobile_deployable = c.filterMobile

MatchesRecurring(e, c) ==
    LET isRecurring == IF c.filterRecurring = yes THEN "true" ELSE "false"
    IN  e.is_recurring = isRecurring

MatchesWeekdays(e, c) ==
    IF ~Truthy(e.weekdays) THEN FALSE
    ELSE LET entryDays == Split(e.weekdays, ",")
         IN  \E i \in 1..Len(c.selectedWeekdays) :
                 ArrIncludes(entryDays, c.selectedWeekdays[i])

\* a date callback for which a row without end date has no end
MatchesDate_OpenEnded(e, c) ==
    LET searchDateObj  == NewDate(c.searchDate)
        entryStartDate == NewDate(e.date)
    IN  /\ searchDateObj >= entryStartDate
        /\ e.end_date # NoDate => searchDateObj <= NewDate(e.end_date)

\* a date callback whose end is exclusive
MatchesDate_EndExclusive(e, c) ==
    LET searchDateObj  == NewDate(c.searchDate)
        entryStartDate == NewDate(e.date)
        entryEndDate   == NewDate(IF e.end_date # NoDate THEN e.end_date ELSE e.date)
    IN  searchDateObj >= entryStartDate /\ searchDateObj < entryEndDate

MatchesDate(e, c) ==
    LET searchDateObj  == NewDate(c.searchDate)
        entryStartDate == NewDate(e.date)
        entryEndDate   == NewDate(IF e.end_date # NoDate THEN e.end_date ELSE e.date)
    IN  searchDateObj >= entryStartDate /\ searchDateObj <= entryEndDate

\* a time callback that takes an end before the start as an end on the
\* next day
MatchesTime_Overnight(e, c) ==
    IF ~Truthy(e.start_time) \/ ~Truthy(e.end_time) THEN TRUE
    ELSE IF StrLess(e.end_time, e.start_time)
    THEN StrGeq(c.searchTime, e.start_time) \/ StrLeq(c.searchTime, e.end_time)
    ELSE StrGeq(c.searchTime, e.start_time) /\ StrLeq(c.searchTime, e.end_time)

MatchesTime(e, c) ==
    IF ~Truthy(e.start_time) \/ ~Truthy(e.end_time) THEN TRUE
    ELSE StrGeq(c.searchTime, e.start_time) /\ StrLeq(c.searchTime, e.end_time)

\* the stages, each: if (criterion is set) filtered = filtered.filter(callback)
SearchStage(filtered, c) ==
    IF Truthy(c.searchTerm)
    THEN LET Keep(e) == MatchesSearch(e, c) IN SelectSeq(filtered, Keep)
    ELSE filtered

\* a shift stage without its guard
ShiftTypeStage_NoGuard(filtered, c) ==
    LET Keep(e) == MatchesShiftType(e, c) IN SelectSeq(filtered, Keep)

ShiftTypeStage(filtered, c) ==
    IF c.filterShiftType # all
    THEN LET Keep(e) == MatchesShiftType(e, c) IN SelectSeq(filtered, Keep)
    ELSE filtered

\* a location stage that filters the snapshot, not the previous stage
LocationStage_FromEntries(filtered, c) ==
    IF c.filterLocation # all
    THEN LET Keep(e) == MatchesLocation(e, c) IN SelectSeq(entries, Keep)
    ELSE filtered

LocationStage(filtered, c) ==
    IF c.filterLocation # all
    THEN LET Keep(e) == MatchesLocation(e, c) IN SelectSeq(filtered, Keep)
    ELSE filtered

MobileStage(filtered, c) ==
    IF c.filterMobile # all
    THEN LET Keep(e) == MatchesMobile(e, c) IN SelectSeq(filtered, Keep)
    ELSE filtered

RecurringStage(filtered, c) ==
    IF c.filterRecurring # all
    THEN LET Keep(e) == MatchesRecurring(e, c) IN SelectSeq(filtered, Keep)
    ELSE filtered

WeekdayStage(filtered, c) ==
    IF Len(c.selectedWeekdays) > 0
    THEN LET Keep(e) == MatchesWeekdays(e, c) IN SelectSeq(filtered, Keep)
    ELSE filtered

\* a date stage that filters the snapshot, not the previous stage
DateStage_FromEntries(filtered, c) ==
    IF c.searchDate # NoDate
    THEN LET Keep(e) == MatchesDate(e, c) IN SelectSeq(entries, Keep)
    ELSE filtered

DateStage(filtered, c) ==
    IF c.searchDate # NoDate
    THEN LET Keep(e) == MatchesDate(e, c) IN SelectSeq(filtered, Keep)
    ELSE filtered

TimeStage(filtered, c) ==
    IF Truthy(c.searchTime)
    THEN LET Keep(e) == MatchesTime(e, c) IN SelectSeq(filtered, Keep)
    ELSE filtered

\* let filtered = [...entries]; then the stages in order
Filter(list, c) ==
    TimeStage(DateStage(WeekdayStage(RecurringStage(MobileStage(
        LocationStage(ShiftTypeStage(SearchStage(list, c), c), c), c), c), c), c), c)

\* String.prototype.localeCompare under the default (root, en, de)
\* collation: the strings are compared by base letters first (blank and
\* punctuation before digits before letters, case and umlaut dots
\* ignored), then by accents, then by case (lower case first)
CollationOrder == <<" ", ",", ":", "0","1","2","3","4","5","6","7","8","9">> \o Lower
BaseLetter(ch) ==
    CASE ch = "ö" -> "o" [] ch = "ü" -> "u" [] ch = "ä" -> "a" [] OTHER -> ToLowerChar(ch)
PrimaryWeight(ch) ==
    CHOOSE i \in 1..Len(CollationOrder) : CollationOrder[i] = BaseLetter(ch)
SecondaryWeight(ch) == IF ch \in {"ö", "ü", "ä"} THEN 1 ELSE 0
TertiaryWeight(ch) == IF ch \in UpperCase THEN 1 ELSE 0

\* order of two sequences of weights: -1, 0 or 1
RECURSIVE CompareWeights(_, _)
CompareWeights(x, y) ==
    IF x = <<>> /\ y = <<>> THEN 0
    ELSE IF x = <<>> THEN 0 - 1
    ELSE IF y = <<>> THEN 1
    ELSE IF Head(x) < Head(y) THEN 0 - 1
    ELSE IF Head(x) > Head(y) THEN 1
    ELSE CompareWeights(Tail(x), Tail(y))

LocaleCompare(a, b) ==
    LET primary   == CompareWeights([i \in 1..Len(a) |-> PrimaryWeight(a[i])],
                                    [i \in 1..Len(b) |-> PrimaryWeight(b[i])])
        secondary == CompareWeights([i \in 1..Len(a) |-> SecondaryWeight(a[i])],
                                    [i \in 1..Len(b) |-> SecondaryWeight(b[i])])
        tertiary  == CompareWeights([i \in 1..Len(a) |-> TertiaryWeight(a[i])],
                                    [i \in 1..Len(b) |-> TertiaryWeight(b[i])])
    IN  IF primary # 0 THEN primary
        ELSE IF secondary # 0 THEN secondary
        ELSE tertiary

\* a creation time for which a null timestamp is later than every timestamp
CreatedAtTime_AbsentIsLast(e) == IF e.created_at # NoDate THEN e.created_at ELSE 0 - EpochTime

\* new Date(created_at || 0).getTime(): a null timestamp is the epoch
CreatedAtTime(e) == IF e.created_at # NoDate THEN e.created_at ELSE EpochTime

\* a comparator that compares the names whatever the field
Comparison_ByName(a, b, field) == LocaleCompare(FullName(a), FullName(b))

\* the comparator of filtered.sort; no case of the switch matches an
\* unknown field, and comparison stays 0
Comparison(a, b, field) ==
    CASE field = "name"       -> LocaleCompare(FullName(a), FullName(b))
      [] field = "date"       -> NewDate(a.date) - NewDate(b.date)
      [] field = "location"   -> LocaleCompare(a.location, b.location)
      [] field = "shift_type" -> LocaleCompare(OrEmpty(a.shift_type), OrEmpty(b.shift_type))
      [] field = "created_at" -> CreatedAtTime(a) - CreatedAtTime(b)
      [] OTHER                -> 0

\* a sort that puts an element before the elements it compares equal to
RECURSIVE SortEntries_Unstable(_, _, _)
SortEntries_Unstable(list, field, direction) ==
    IF list = <<>> THEN <<>>
    ELSE LET rest == SortEntries_Unstable(SubSeq(list, 1, Len(list) - 1), field, direction)
             x    == list[Len(list)]
             Cmp(a, b) == IF direction = "asc" THEN Comparison(a, b, field)
                          ELSE 0 - Comparison(a, b, field)
             k    == Cardinality({i \in 1..Len(rest) :
                         \A j \in 1..i : Cmp(rest[j], x) < 0})
         IN  SubSeq(rest, 1, k) \o <<x>> \o SubSeq(rest, k + 1, Len(rest))

\* a sort that is ascending whatever the direction
SortEntries_IgnoreDirection(list, field, direction) ==
    SortEntries_Unstable(list, field, "asc")

\* Array.prototype.sort is stable: insertion of each element after the
\* elements it does not precede
RECURSIVE SortEntries(_, _, _)
SortEntries(list, field, direction) ==
    IF list = <<>> THEN <<>>
    ELSE LET rest == SortEntries(SubSeq(list, 1, Len(list) - 1), field, direction)
             x    == list[Len(list)]
             Cmp(a, b) == IF direction = "asc" THEN Comparison(a, b, field)
                          ELSE 0 - Comparison(a, b, field)
             k    == Cardinality({i \in 1..Len(rest) :
                         \A j \in 1..i : Cmp(rest[j], x) <= 0})
         IN  SubSeq(rest, 1, k) \o <<x>> \o SubSeq(rest, k + 1, Len(rest))

FilteredEntries == SortEntries(Filter(entries, Criteria), sortField, sortDirection)

\* Arrays have identity: "entries" is the array held by the state, "new"
\* an array made during the evaluation.

\* an assignment of the array itself, without a copy
Spread_Alias(array) == array

\* [...entries]: a new array with the same elements
Spread(array) == "new"

\* the array that filtered.sort sorts in place: the copy, or the array
\* Array.prototype.filter returned in the last stage that ran
SortedArray(c) ==
    IF \/ Truthy(c.searchTerm) \/ c.filterShiftType # all \/ c.filterLocation # all
       \/ c.filterMobile # all \/ c.filterRecurring # all
       \/ Len(c.selectedWeekdays) > 0 \/ c.searchDate # NoDate \/ Truthy(c.searchTime)
    THEN "new"
    ELSE Spread("entries")

\* the elements of the state's array after filteredEntries was evaluated
EntriesAfterSort(list, c, field, direction) ==
    IF SortedArray(c) = "entries" THEN SortEntries(list, field, direction) ELSE list

\* a render evaluates filteredEntries with the new state; the calendar's
\* getEntriesForDate only calls entries.filter, which writes to no array
Rerender == entries' = EntriesAfterSort(entries, Criteria', sortField', sortDirection')

\* entry.location.split(',').map(loc => loc.trim())
LocationLabels(e) ==
    LET parts == Split(e.location, ",") IN [i \in 1..Len(parts) |-> Trim(parts[i])]

\* entries.flatMap(...)
RECURSIVE FlatMapLabels(_)
FlatMapLabels(list) ==
    IF list = <<>> THEN <<>>
    ELSE LocationLabels(Head(list)) \o FlatMapLabels(Tail(list))

\* Array.from(new Set(arr)): the first occurrence of each value, in order
SetOf(arr) ==
    LET First(i) == \A j \in 1..(i - 1) : arr[j] # arr[i]
        kept == { i \in 1..Len(arr) : First(i) }
        Nth(n) == CHOOSE i \in kept : Cardinality({ j \in kept : j < i }) = n - 1
    IN  [n \in 1..Cardinality(kept) |-> arr[Nth(n)]]

\* Array.prototype.sort() without comparator: by UTF-16 code units
RECURSIVE SortStrings(_)
SortStrings(arr) ==
    IF arr = <<>> THEN <<>>
    ELSE LET rest == SortStrings(SubSeq(arr, 1, Len(arr) - 1))
             x    == arr[Len(arr)]
             k    == Cardinality({ i \in 1..Len(rest) : \A j \in 1..i : ~StrLess(x, rest[j]) })
         IN  SubSeq(rest, 1, k) \o <<x>> \o SubSeq(rest, k + 1, Len(rest))

\* locations: the labels the location Select offers
Locations == SortStrings(SetOf(FlatMapLabels(entries)))

\* getActiveFiltersCount
GetActiveFiltersCount ==
      (IF Truthy(searchTerm) THEN 1 ELSE 0)
    + (IF filterShiftType # all THEN 1 ELSE 0)
    + (IF filterLocation # all THEN 1 ELSE 0)
    + (IF filterMobile # all THEN 1 ELSE 0)
    + (IF filterRecurring # all THEN 1 ELSE 0)
    + (IF searchDate # NoDate THEN 1 ELSE 0)
    + (IF Truthy(searchTime) THEN 1 ELSE 0)
    + (IF Len(selectedWeekdays) > 0 THEN 1 ELSE 0)

-----------------------------------------------------------------------------
(* Exceptions.  The dashboard derives locations before filteredEntries in   *)
(* each render, and an exception in either ends the render.                 *)

\* locations: entry.location.split throws a TypeError on null
LocationsRaises == \E i \in 1..Len(entries) : entries[i].location = NULL

\* the location stage: entry.location.split throws a TypeError on null
LocationStageRaises(filtered, c) ==
    /\ c.filterLocation # all
    /\ \E i \in 1..Len(filtered) : filtered[i].location = NULL

\* the comparator: a.location.localeCompare throws a TypeError on null
ComparisonRaises(a, b, field) == field = "location" /\ a.location = NULL

\* filteredEntries throws in the location stage; its sort throws when it
\* calls the comparator with a row without location first, and it gets
\* rows only if locations did not throw, so only rows with a location
FilteredEntriesRaises ==
    LocationStageRaises(ShiftTypeStage(SearchStage(entries, Criteria), Criteria), Criteria)

\* the render of the dashboard throws
RenderRaises == LocationsRaises \/ FilteredEntriesRaises

-----------------------------------------------------------------------------
(* AvailabilityCalendar *)

\* a callback that gates on weekdays without looking at is_recurring
IsActiveOn_WeekdaysOnly(entry, date) ==
    LET entryStart == ParseISO(entry.date)
        entryEnd   == IF entry.end_date # NoDate THEN ParseISO(entry.end_date)
                      ELSE entryStart
        isInRange  == \/ IsWithinInterval(date, entryStart, entryEnd)
                      \/ IsSameDay(date, entryStart)
                      \/ IsSameDay(date, entryEnd)
    IN  IF ~isInRange THEN FALSE
        ELSE IF Truthy(entry.weekdays)
        THEN \E i \in 1..Len(Split(entry.weekdays, ",")) :
                 WEEKDAY_MAP(Trim(Split(entry.weekdays, ",")[i])) = GetDay(date)
        ELSE TRUE

\* the callback of entries.filter in getEntriesForDate
IsActiveOn(entry, date) ==
    LET entryStart == ParseISO(entry.date)
        entryEnd   == IF entry.end_date # NoDate THEN ParseISO(entry.end_date)
                      ELSE entryStart
        isInRange  == \/ IsWithinInterval(date, entryStart, entryEnd)
                      \/ IsSameDay(date, entryStart)
                      \/ IsSameDay(date, entryEnd)
    IN  IF ~isInRange THEN FALSE
        ELSE IF entry.is_recurring = "true" /\ Truthy(entry.weekdays)
        THEN LET dayOfWeek == GetDay(date)
                 weekdays  == Split(entry.weekdays, ",")
             IN  \E i \in 1..Len(weekdays) :
                     WEEKDAY_MAP(Trim(weekdays[i])) = dayOfWeek
        ELSE TRUE

GetEntriesForDate(list, date) ==
    LET Keep(entry) == IsActiveOn(entry, date) IN SelectSeq(list, Keep)

\* the entries prop of <AvailabilityCalendar entries={filteredEntries} />
CalendarEntries == FilteredEntries

\* the people count of a calendar cell: the keys of entriesByEmployee
EmployeeKeys(dayEntries) == { FullName(dayEntries[i]) : i \in 1..Len(dayEntries) }
UniqueEmployees(day) ==
    Cardinality(EmployeeKeys(GetEntriesForDate(CalendarEntries, day)))

\* selectedDateEntries
SelectedDateEntries ==
    IF selectedDate = NoDate THEN <<>>
    ELSE GetEntriesForDate(CalendarEntries, selectedDate)

-----------------------------------------------------------------------------
(* Statistics of the dashboard *)

\* const today = new Date(); today.setHours(0, 0, 0, 0): local midnight
StartOfToday == today * 24 - tz

\* the callback of entries.filter in stats.availableToday
IsAvailableToday(entry) ==
    LET startDate == NewDate(entry.date)
        endDate   == IF entry.end_date # NoDate THEN NewDate(entry.end_date)
                     ELSE startDate
    IN  StartOfToday >= startDate /\ StartOfToday <= endDate

\* stats.availableToday
AvailableToday == Len(SelectSeq(entries, IsAvailableToday))

-----------------------------------------------------------------------------
(* Input domains *)

Ana == [ user_id |-> <<"u","1">>, first_name |-> <<"A","n","a">>,
         last_name |-> <<"M","ü","l","l","e","r">>,
         phone_number |-> <<"0","1","5","1">>,
         guard_id_number |-> <<"G","7">>, e_pin_number |-> EmptyStr ]
Bob == [ user_id |-> <<"u","2">>, first_name |-> <<"B","o","b">>,
         last_name |-> <<"S","m","i","t","h">>,
         phone_number |-> <<"0","1","7","2">>,
         guard_id_number |-> EmptyStr, e_pin_number |-> <<"P","9">> ]

\* the merge of a row whose profile is missing: profile?.first_name || ''
NoProfile == [ user_id |-> NULL, first_name |-> EmptyStr, last_name |-> EmptyStr,
               phone_number |-> EmptyStr, guard_id_number |-> EmptyStr,
               e_pin_number |-> EmptyStr ]

\* a second person of the same name as Ana
Namesake == [ Ana EXCEPT !.user_id = <<"u","3">>,
                         !.phone_number = <<"0","1","6","0">>,
                         !.guard_id_number = <<"G","8">> ]

\* the merge of a row of a person whose profile is missing
Unlisted == [ NoProfile EXCEPT !.user_id = <<"u","4">> ]

NoTimes  == <<NULL, NULL>>
DayShift == <<HHMMSS("0","8","0","0"), HHMMSS("1","7","0","0")>>
Overnight == <<HHMMSS("2","2","0","0"), HHMMSS("0","6","0","0")>>
OpenEnd  == <<HHMMSS("0","8","0","0"), NULL>>

Weekend == Join(<<saturday, sunday>>)

SearchTerms  == { <<"A","N">> }
ShiftFilters == { earlyShift }
LocationFilters == { Koeln }
MobileFilters == { yes }
RecurringFilters == { yes, no }
SearchDays == 1..MaxSearchDay
SearchTimes == { HHMM("0","8","0","0"), HHMM("1","2","0","0"),
                 HHMM("1","7","0","0"), HHMM("2","3","0","0") }
FilterWeekdays == { monday, sunday }
TimeZones == { 0 - 5, 0, 2 }
Days == 1..MaxDay

\* two plain rows that accompany the row under study in a snapshot
Anchor1 == AvailabilityEntry(0, Ana, 2, NoDate, NoTimes, NULL, Koeln, NULL, "false", NULL)
Anchor2 == AvailabilityEntry(0, Bob, 3, 3, DayShift, nightShift, Essen, no, "true", Weekend)
Anchors == { Anchor1, Anchor2 }

\* rows that vary the columns the date, time and weekday filters read
DateRows ==
    { AvailabilityEntry(0, Ana, d[1], d[2], NoTimes, NULL, Koeln, NULL, "false", NULL) :
        d \in { <<2, 2>>, <<2, 4>>, <<3, NoDate>>, <<4, 2>> } }
TimeRows ==
    { AvailabilityEntry(0, Ana, 2, NoDate, t, NULL, Koeln, NULL, "false", NULL) :
        t \in { DayShift, Overnight, OpenEnd } }
WeekdayRows ==
    { AvailabilityEntry(0, Ana, 2, 4, NoTimes, NULL, Koeln, NULL, r[1], r[2]) :
        r \in { <<"true", monday>>, <<"true", Weekend>>, <<"true", NULL>>,
                <<"false", monday>>, <<"null", NULL>> } }
CategoryRows ==
    { AvailabilityEntry(0, o, 2, NoDate, NoTimes, s, l, m, "false", NULL) :
        o \in { Ana, Bob }, s \in { NULL, earlyShift }, l \in { Koeln, Join(<<Essen, Koeln>>) },
        m \in { NULL, yes } }
\* rows that vary the location column: several labels with a blank after
\* the comma, a label that contains another, no label, an empty label
\* between commas, a label twice
LocationRows ==
    { AvailabilityEntry(0, Bob, 2, NoDate, NoTimes, NULL, l, m, "false", NULL) :
        l \in { Koeln, <<"E","s","s","e","n",","," ","K","ö","l","n">>, KoelnSued, EmptyStr,
                Join(<<Koeln, EmptyStr, Essen>>), Join(<<Koeln, Koeln>>) },
        m \in { yes, no } }
FilterRows ==
    DateRows \cup TimeRows \cup WeekdayRows \cup CategoryRows \cup LocationRows \cup Anchors

\* rows that vary the columns getEntriesForDate reads
CalendarRows ==
    { AvailabilityEntry(0, Ana, d[1], d[2], NoTimes, NULL, Koeln, NULL, r, w) :
        d \in { <<2, NoDate>>, <<2, 2>>, <<2, MaxDay - 1>>, <<4, 2>> },
        r \in { "true", "false", "null" },
        w \in { NULL, EmptyStr, monday, Weekend } }

\* rows with a remark, and the texts typed into the search input
NoteRows ==
    { [r EXCEPT !.notes = <<"N","a","c","h","t">>] : r \in { Anchor1, Anchor2 } }
OrphanRows ==
    { AvailabilityEntry(0, NoProfile, 2, NoDate, NoTimes, s, Koeln, NULL, "false", NULL) :
        s \in { NULL, earlyShift } }
SearchRows == CategoryRows \cup WeekdayRows \cup NoteRows \cup OrphanRows
SearchTexts ==
    { <<"A","N">>, <<"a"," ","m">>, <<"7">>, <<"ö","l">>, <<"S","h","i","f","t">>,
      <<"m","o","n">>, <<"p","9">>, <<"n","a","c","h","t">>, <<"n","u","l","l">> }

\* rows that vary the columns the comparator reads; created_at is in hours
\* like every Date of the model
SortRows ==
    { [AvailabilityEntry(0, r[1], r[2], NoDate, NoTimes, r[3], r[4], NULL, "false", NULL)
          EXCEPT !.created_at = r[5]] :
        r \in { <<Ana, 2, NULL, Koeln, NoDate>>,
                <<Bob, 3, nightShift, Essen, 30>>,
                <<Ana, 10, earlyShift, Join(<<Essen, Koeln>>), 20>>,
                <<Bob, 2, earlyShift, Koeln, 20>>,
                <<NoProfile, 3, EmptyStr, KoelnSued, 10>> } }

\* snapshots of up to MaxSortEntries of these rows in the order of the
\* query; rows of the same date come in either order
SortSnapshots ==
    LET Lists == UNION { [1..k -> SortRows] : k \in 1..MaxSortEntries }
    IN  { [i \in 1..Len(l) |-> [l[i] EXCEPT !.id = i]] :
            l \in { x \in Lists :
                      /\ \A i, j \in 1..Len(x) : i # j => x[i] # x[j]
                      /\ \A i \in 1..(Len(x) - 1) : x[i].date <= x[i + 1].date } }

\* the shift types of the shift Select, and values the types rule out but
\* nothing checks at run time
ShiftTypes == { earlyShift, lateShift, nightShift, flexible }
UnknownShiftTypes == { <<"d","a","y","S","h","i","f","t">> }
UnknownSortFields == { "priority" }

\* rows without a required column: no date, no date but an end date, no
\* location
UncheckedRows ==
    { AvailabilityEntry(0, Ana, NoDate, NoDate, NoTimes, earlyShift, Koeln, NULL, "false", NULL),
      AvailabilityEntry(0, Ana, NoDate, 4, NoTimes, earlyShift, Koeln, NULL, "false", NULL),
      AvailabilityEntry(0, Ana, 2, NoDate, NoTimes, earlyShift, NULL, NULL, "false", NULL) }

\* the position of a row in the order of the query: ascending by date,
\* null last
QueryOrder(e) == IF e.date = NoDate THEN MaxDay + 1 ELSE e.date

\* snapshots of up to MaxEntries rows in the order of the query
\* (.order("date", { ascending: true })): one row of Rows among anchors;
\* ids are the positions
Snapshots(Rows) ==
    LET n(l) == Len(l)
        Lists == UNION { [1..k -> Rows \cup Anchors] : k \in 1..MaxEntries }
    IN  { [i \in 1..Len(l) |-> [l[i] EXCEPT !.id = i]] :
            l \in { x \in Lists :
                      /\ Cardinality({i \in 1..Len(x) : x[i] \notin Anchors}) <= 1
                      /\ \A i \in 1..(Len(x) - 1) :
                             QueryOrder(x[i]) <= QueryOrder(x[i + 1]) } }

-----------------------------------------------------------------------------
(* The dashboard: filter bar.  An input's change handler runs when the     *)
(* value changes.                                                          *)

Unset ==
    /\ searchTerm = EmptyStr
    /\ filterShiftType = all
    /\ filterLocation = all
    /\ filterMobile = all
    /\ filterRecurring = all
    /\ searchDate = NoDate
    /\ searchTime = EmptyStr
    /\ selectedWeekdays = <<>>

InitCommon ==
    /\ Unset
    /\ sortField = "date"
    /\ sortDirection = "asc"
    /\ selectedDate = NoDate

\* the form as it opens: type "single", no weekday selected
InitForm ==
    /\ availabilityType = "single"
    /\ formWeekdays = <<>>

\* the dashboard after its first fetch has returned, on the first day of
\* the month; the backend is not looked at again
InitIdle ==
    /\ loading = FALSE
    /\ fetches = <<>>
    /\ availability = <<>>
    /\ profiles = <<>>
    /\ InitForm

InitRest ==
    /\ today = 1
    /\ InitIdle

Init ==
    /\ InitCommon
    /\ InitRest
    /\ entries \in Snapshots(FilterRows)
    /\ tz = 0

\* the model explores at most MaxActiveFilters criteria set at once
Bounded == GetActiveFiltersCount' <= MaxActiveFilters

SetSearchTerm(v) ==
    /\ v # searchTerm
    /\ searchTerm' = v
    /\ UNCHANGED <<filterShiftType, filterLocation, filterMobile,
                   filterRecurring, searchDate, searchTime, selectedWeekdays,
                   sortVars, selectedDate, tz, restVars>>
    /\ Rerender
    /\ Bounded

SetFilterShiftType(v) ==
    /\ v # filterShiftType
    /\ filterShiftType' = v
    /\ UNCHANGED <<searchTerm, filterLocation, filterMobile,
                   filterRecurring, searchDate, searchTime, selectedWeekdays,
                   sortVars, selectedDate, tz, restVars>>
    /\ Rerender
    /\ Bounded

\* the Select offers "all" and the labels of locations
SetFilterLocation(v) ==
    /\ v # filterLocation
    /\ v = all \/ ArrIncludes(Locations, v)
    /\ filterLocation' = v
    /\ UNCHANGED <<searchTerm, filterShiftType, filterMobile,
                   filterRecurring, searchDate, searchTime, selectedWeekdays,
                   sortVars, selectedDate, tz, restVars>>
    /\ Rerender
    /\ Bounded

SetFilterMobile(v) ==
    /\ v # filterMobile
    /\ filterMobile' = v
    /\ UNCHANGED <<searchTerm, filterShiftType, filterLocation,
                   filterRecurring, searchDate, searchTime, selectedWeekdays,
                   sortVars, selectedDate, tz, restVars>>
    /\ Rerender
    /\ Bounded

SetFilterRecurring(v) ==
    /\ v # filterRecurring
    /\ filterRecurring' = v
    /\ UNCHANGED <<searchTerm, filterShiftType, filterLocation,
                   filterMobile, searchDate, searchTime, selectedWeekdays,
                   sortVars, selectedDate, tz, restVars>>
    /\ Rerender
    /\ Bounded

SetSearchDate(v) ==
    /\ v # searchDate
    /\ searchDate' = v
    /\ UNCHANGED <<searchTerm, filterShiftType, filterLocation,
                   filterMobile, filterRecurring, searchTime, selectedWeekdays,
                   sortVars, selectedDate, tz, restVars>>
    /\ Rerender
    /\ Bounded

SetSearchTime(v) ==
    /\ v # searchTime
    /\ searchTime' = v
    /\ UNCHANGED <<searchTerm, filterShiftType, filterLocation,
                   filterMobile, filterRecurring, searchDate, selectedWeekdays,
                   sortVars, selectedDate, tz, restVars>>
    /\ Rerender
    /\ Bounded

\* toggleWeekday
ToggleWeekday(day) ==
    /\ selectedWeekdays' =
           IF ArrIncludes(selectedWeekdays, day)
           THEN LET Keep(d) == d # day IN SelectSeq(selectedWeekdays, Keep)
           ELSE Append(selectedWeekdays, day)
    /\ UNCHANGED <<searchTerm, filterShiftType, filterLocation,
                   filterMobile, filterRecurring, searchDate, searchTime,
                   sortVars, selectedDate, tz, restVars>>
    /\ Rerender
    /\ Bounded

\* a reset that leaves the weekday selection alone
ResetAllFilters_KeepsWeekdays ==
    /\ searchTerm' = EmptyStr
    /\ filterShiftType' = all
    /\ filterLocation' = all
    /\ filterMobile' = all
    /\ filterRecurring' = all
    /\ searchDate' = NoDate
    /\ searchTime' = EmptyStr
    /\ UNCHANGED <<selectedWeekdays, sortVars, selectedDate, tz, restVars>>
    /\ Rerender

\* resetAllFilters
ResetAllFilters ==
    /\ searchTerm' = EmptyStr
    /\ filterShiftType' = all
    /\ filterLocation' = all
    /\ filterMobile' = all
    /\ filterRecurring' = all
    /\ searchDate' = NoDate
    /\ searchTime' = EmptyStr
    /\ selectedWeekdays' = <<>>
    /\ UNCHANGED <<sortVars, selectedDate, tz, restVars>>
    /\ Rerender

Next ==
    \/ \E v \in SearchTerms \cup {EmptyStr} : SetSearchTerm(v)
    \/ \E v \in ShiftFilters \cup {all} : SetFilterShiftType(v)
    \/ \E v \in LocationFilters \cup {all} : SetFilterLocation(v)
    \/ \E v \in MobileFilters \cup {all} : SetFilterMobile(v)
    \/ \E v \in RecurringFilters \cup {all} : SetFilterRecurring(v)
    \/ \E v \in SearchDays \cup {NoDate} : SetSearchDate(v)
    \/ \E v \in SearchTimes \cup {EmptyStr} : SetSearchTime(v)
    \/ \E day \in FilterWeekdays : ToggleWeekday(day)
    \/ ResetAllFilters

Spec == Init /\ [][Next]_vars

-----------------------------------------------------------------------------
(* The dashboard in calendar view: the date filter and the calendar *)

InitCalendar ==
    /\ InitCommon
    /\ InitRest
    /\ entries \in Snapshots(CalendarRows)
    /\ tz \in TimeZones

\* handleDateClick(day) on the cell of calendar day d
HandleDateClick(d) ==
    /\ selectedDate' = ParseISO(d)
    /\ UNCHANGED <<filterVars, sortVars, tz, restVars>>
    /\ Rerender

NextCalendar ==
    \/ \E d \in Days : HandleDateClick(d)
    \/ \E v \in SearchDays \cup {NoDate} : SetSearchDate(v)

SpecCalendar == InitCalendar /\ [][NextCalendar]_vars

\* the dashboard rendered on any day of the month: the statistics cards and
\* the calendar below them
InitStats ==
    /\ InitCommon
    /\ InitIdle
    /\ today \in Days
    /\ entries \in Snapshots(CalendarRows)
    /\ tz \in TimeZones

NextStats ==
    \E d \in Days : HandleDateClick(d)

SpecStats == InitStats /\ [][NextStats]_vars

\* rows of several people around day 2
PeopleRows ==
    { AvailabilityEntry(0, o, 2, e, NoTimes, NULL, Koeln, NULL, "false", NULL) :
        o \in { Ana, Bob, Namesake, Unlisted, NoProfile }, e \in { NoDate, 3 } }

InitPeople ==
    /\ InitCommon
    /\ InitRest
    /\ entries \in Snapshots(PeopleRows)
    /\ tz \in TimeZones

SpecPeople == InitPeople /\ [][NextStats]_vars

-----------------------------------------------------------------------------
(* The dashboard: text search over rows that differ in the searched fields *)

InitSearch ==
    /\ InitCommon
    /\ InitRest
    /\ entries \in Snapshots(SearchRows)
    /\ tz = 0

NextSearch ==
    \/ \E v \in SearchTexts \cup {EmptyStr} : SetSearchTerm(v)
    \/ \E v \in ShiftFilters \cup {all} : SetFilterShiftType(v)

SpecSearch == InitSearch /\ [][NextSearch]_vars

-----------------------------------------------------------------------------
(* The dashboard: sorting *)

\* type SortField
SortFields == { "name", "date", "location", "shift_type", "created_at" }

InitSort ==
    /\ InitCommon
    /\ InitRest
    /\ entries \in SortSnapshots
    /\ tz = 0

\* a handler that keeps the direction when another field is selected
HandleSort_KeepDirection(field) ==
    /\ IF sortField = field
       THEN /\ sortDirection' = (IF sortDirection = "asc" THEN "desc" ELSE "asc")
            /\ UNCHANGED sortField
       ELSE /\ sortField' = field
            /\ UNCHANGED sortDirection
    /\ UNCHANGED <<filterVars, selectedDate, tz, restVars>>
    /\ Rerender

\* handleSort
HandleSort(field) ==
    /\ IF sortField = field
       THEN /\ sortDirection' = (IF sortDirection = "asc" THEN "desc" ELSE "asc")
            /\ UNCHANGED sortField
       ELSE /\ sortField' = field
            /\ sortDirection' = "asc"
    /\ UNCHANGED <<filterVars, selectedDate, tz, restVars>>
    /\ Rerender

NextSort ==
    \/ \E field \in SortFields : HandleSort(field)
    \/ \E v \in LocationFilters \cup {all} : SetFilterLocation(v)
    \/ \E d \in Days : HandleDateClick(d)

SpecSort == InitSort /\ [][NextSort]_vars

-----------------------------------------------------------------------------
(* The dashboard with values outside the declared types: rows without a    *)
(* required column, a sort field and a shift type that are not of their     *)
(* type.  After a render that threw there is no dashboard to act on.        *)

InitUnchecked ==
    /\ InitCommon
    /\ InitRest
    /\ entries \in Snapshots(UncheckedRows)
    /\ tz \in TimeZones

NextUnchecked ==
    \/ \E field \in SortFields \cup UnknownSortFields : ~RenderRaises /\ HandleSort(field)
    \/ \E v \in ShiftFilters \cup UnknownShiftTypes \cup {all} :
           ~RenderRaises /\ SetFilterShiftType(v)
    \/ \E v \in SearchDays \cup {NoDate} : ~RenderRaises /\ SetSearchDate(v)
    \/ \E d \in Days : ~RenderRaises /\ HandleDateClick(d)

SpecUnchecked == InitUnchecked /\ [][NextUnchecked]_vars

-----------------------------------------------------------------------------
(* AvailabilityForm: the availability type, the weekday buttons and the    *)
(* submission of a new row.  The date and the locations are chosen; the    *)
(* form is left after a submission and opens anew.                          *)

\* type AvailabilityType
AvailabilityTypes == { "single", "range", "recurring", "weekend", "weekdays" }

\* the weekday buttons the model presses
FormWeekdayOptions == { monday, saturday }

\* useEffect on availabilityType: the weekdays the type selects
AutoSelectedWeekdays(type, selected) ==
    CASE type = "weekend"  -> <<saturday, sunday>>
      [] type = "weekdays" -> <<monday, tuesday, wednesday, thursday, friday>>
      [] type \in {"single", "range"} -> <<>>
      [] OTHER -> selected

\* onClick={() => setAvailabilityType(type)} and the effect that follows
SetAvailabilityType(type) ==
    /\ type # availabilityType
    /\ availabilityType' = type
    /\ formWeekdays' = AutoSelectedWeekdays(type, formWeekdays)
    /\ UNCHANGED <<entries, filterVars, sortVars, selectedDate, tz, today,
                   fetchVars, backendVars>>

\* handleWeekdayToggle; the buttons are shown for "recurring" and shown
\* disabled for "weekend" and "weekdays"
HandleWeekdayToggle(day) ==
    /\ availabilityType = "recurring"
    /\ ~(availabilityType = "weekend" \/ availabilityType = "weekdays")
    /\ formWeekdays' =
           IF ArrIncludes(formWeekdays, day)
           THEN LET Keep(d) == d # day IN SelectSeq(formWeekdays, Keep)
           ELSE Append(formWeekdays, day)
    /\ UNCHANGED <<entries, filterVars, sortVars, selectedDate, tz, today,
                   fetchVars, backendVars, availabilityType>>

\* availabilityData of handleSubmit for a date and a location, as the table
\* stores it (id and created_at are the table's)
AvailabilityData(date, location) ==
    LET isRecurring    == availabilityType \in {"recurring", "weekend", "weekdays"}
        weekdaysString == IF isRecurring THEN Join(formWeekdays) ELSE NULL
    IN  [ id                |-> Len(availability) + 1,
          user_id           |-> Ana.user_id,
          date              |-> date,
          start_time        |-> NULL,
          end_time          |-> NULL,
          shift_type        |-> NULL,
          location          |-> location,
          is_recurring      |-> IF isRecurring THEN "true" ELSE "false",
          weekdays          |-> IF Truthy(weekdaysString) THEN weekdaysString ELSE NULL,
          end_date          |-> date,
          mobile_deployable |-> NULL,
          notes             |-> NULL,
          created_at        |-> NoDate ]

\* handleSubmit (insert), then navigate("/dashboard"): the form is gone
HandleSubmit ==
    /\ Len(availability) < MaxSubmitted
    /\ availability' = Append(availability, AvailabilityData(2, Koeln))
    /\ availabilityType' = "single"
    /\ formWeekdays' = <<>>
    /\ UNCHANGED <<entries, filterVars, sortVars, selectedDate, tz, today,
                   fetchVars, profiles>>

InitFormOpen ==
    /\ InitCommon
    /\ InitRest
    /\ entries = <<>>
    /\ tz = 0

NextForm ==
    \/ \E type \in AvailabilityTypes : SetAvailabilityType(type)
    \/ \E day \in FormWeekdayOptions : HandleWeekdayToggle(day)
    \/ HandleSubmit

SpecForm == InitFormOpen /\ [][NextForm]_vars

-----------------------------------------------------------------------------
(* fetchEntries: the two queries, the merge of the profiles onto the rows,  *)
(* and the realtime subscription that starts it again.  A call is a record  *)
(* of its position and its locals; the calls are kept in order of start.    *)

\* select("*") of table availability
RawColumns ==
    { "id", "user_id", "date", "end_date", "start_time", "end_time", "shift_type",
      "location", "mobile_deployable", "notes", "is_recurring", "weekdays",
      "created_at" }

\* select("id, first_name, last_name, phone_number, guard_id_number, e_pin_number")
ProfileFields ==
    { "first_name", "last_name", "phone_number", "guard_id_number", "e_pin_number" }

RawRow(id, owner, date) ==
    LET e == AvailabilityEntry(id, owner, date, NoDate, NoTimes, NULL, Koeln, NULL, "false", NULL)
    IN  [ k \in RawColumns |-> e[k] ]

ProfileRow(owner) ==
    [ k \in ProfileFields \cup {"id"} |->
        IF k = "id" THEN owner.user_id ELSE owner[k] ]

\* the rows written to the table while the dashboard is open; their dates
\* differ, so the order of the query is determined
TableRows == { RawRow(1, NoProfile, 1), RawRow(2, Ana, 2), RawRow(3, Unlisted, 3) }

\* the contents of table profiles; a column of a profile may be null
ProfileTables ==
    { <<ProfileRow(Ana), ProfileRow(Bob)>>,
      <<ProfileRow(Bob), [ProfileRow(Ana) EXCEPT !.e_pin_number = NULL]>>,
      <<ProfileRow(Bob)>> }

\* .order("date", { ascending: true })
RECURSIVE OrderByDate(_)
OrderByDate(rows) ==
    IF rows = <<>> THEN <<>>
    ELSE LET Earlier(r) == QueryOrder(r) < QueryOrder(rows[1])
             Others(r)  == ~Earlier(r)
         IN  OrderByDate(SelectSeq(Tail(rows), Earlier)) \o <<rows[1]>>
                 \o OrderByDate(SelectSeq(Tail(rows), Others))

\* a lookup that returns the profiles whatever the key
ProfilesMapGet_AnyKey(profilesData, key) == profilesData

\* the profiles profilesMap.get(key) chooses from: those stored under the key
ProfilesMapGet(profilesData, key) ==
    LET HasKey(p) == p.id = key IN SelectSeq(profilesData, HasKey)

\* the callback of availabilityData.map
MergeProfile(entry, profilesData) ==
    LET found   == ProfilesMapGet(profilesData, OrEmpty(entry.user_id))
        profile == found[Len(found)]
    IN  [ k \in RawColumns \cup ProfileFields |->
            IF k \in RawColumns THEN entry[k]
            ELSE IF Len(found) = 0 THEN EmptyStr
            ELSE OrEmpty(profile[k]) ]

\* mergedData
MergedData(availabilityData, profilesData) ==
    [ i \in 1..Len(availabilityData) |-> MergeProfile(availabilityData[i], profilesData) ]

\* a call of fetchEntries that has sent its first query
StartedFetch ==
    [ pc |-> "availability", availabilityData |-> <<>>, profilesData |-> <<>>,
      mergedData |-> <<>> ]

Returned == { "done", "failed" }

\* postgres_changes on table availability: a row is inserted or deleted and
\* the subscription's callback calls fetchEntries
RowInserted(row) ==
    /\ Len(fetches) < MaxFetches
    /\ \A i \in 1..Len(availability) : availability[i].id # row.id
    /\ availability' = Append(availability, row)
    /\ fetches' = Append(fetches, StartedFetch)
    /\ UNCHANGED <<entries, filterVars, sortVars, selectedDate, tz, today,
                   loading, profiles, formVars>>

RowDeleted(i) ==
    /\ Len(fetches) < MaxFetches
    /\ i \in 1..Len(availability)
    /\ availability' = SubSeq(availability, 1, i - 1)
                           \o SubSeq(availability, i + 1, Len(availability))
    /\ fetches' = Append(fetches, StartedFetch)
    /\ UNCHANGED <<entries, filterVars, sortVars, selectedDate, tz, today,
                   loading, profiles, formVars>>

\* the first query returns its rows; the second query is sent
AvailabilityReturns(i) ==
    /\ i \in 1..Len(fetches)
    /\ fetches[i].pc = "availability"
    /\ fetches' = [fetches EXCEPT ![i].pc = "profiles",
                                  ![i].availabilityData = OrderByDate(availability)]
    /\ UNCHANGED <<entries, filterVars, sortVars, selectedDate, tz, today,
                   loading, backendVars, formVars>>

\* a catch block that adopts the rows it has, without profiles
FetchThrows_AdoptsRows(i) ==
    /\ fetches' = [fetches EXCEPT ![i].pc = "failed"]
    /\ entries' = MergedData(OrderByDate(availability), <<>>)
    /\ loading' = FALSE
    /\ UNCHANGED <<filterVars, sortVars, selectedDate, tz, today,
                   backendVars, formVars>>

\* throw of a query's error: catch (console.error, toast), finally
FetchThrows(i) ==
    /\ fetches' = [fetches EXCEPT ![i].pc = "failed"]
    /\ loading' = FALSE
    /\ UNCHANGED <<entries, filterVars, sortVars, selectedDate, tz, today,
                   backendVars, formVars>>

\* the first query returns an error
AvailabilityFails(i) ==
    /\ i \in 1..Len(fetches)
    /\ fetches[i].pc = "availability"
    /\ FetchThrows(i)

\* the second query returns its rows: merge, setEntries, finally
ProfilesReturns(i) ==
    /\ i \in 1..Len(fetches)
    /\ fetches[i].pc = "profiles"
    /\ LET mergedData == MergedData(fetches[i].availabilityData, profiles)
       IN  /\ fetches' = [fetches EXCEPT ![i].pc = "done",
                                         ![i].profilesData = profiles,
                                         ![i].mergedData = mergedData]
           /\ entries' = EntriesAfterSort(mergedData, Criteria, sortField, sortDirection)
    /\ loading' = FALSE
    /\ UNCHANGED <<filterVars, sortVars, selectedDate, tz, today,
                   backendVars, formVars>>

\* the second query returns an error
ProfilesFails(i) ==
    /\ i \in 1..Len(fetches)
    /\ fetches[i].pc = "profiles"
    /\ FetchThrows(i)

\* the dashboard as it mounts: no entries, loading, the first call of
\* fetchEntries under way
InitFetch ==
    /\ InitCommon
    /\ entries = <<>>
    /\ tz = 0
    /\ today = 1
    /\ loading = TRUE
    /\ fetches = <<StartedFetch>>
    /\ availability \in { <<>>, <<RawRow(2, Ana, 2)>> }
    /\ profiles \in ProfileTables
    /\ InitForm

NextFetch ==
    \/ \E row \in TableRows : RowInserted(row)
    \/ \E i \in 1..MaxFetches : RowDeleted(i)
    \/ \E i \in 1..MaxFetches : AvailabilityReturns(i)
    \/ \E i \in 1..MaxFetches : AvailabilityFails(i)
    \/ \E i \in 1..MaxFetches : ProfilesReturns(i)
    \/ \E i \in 1..MaxFetches : ProfilesFails(i)

SpecFetch == InitFetch /\ [][NextFetch]_vars

-----------------------------------------------------------------------------
(* Vocabulary of the properties *)

\* x occurs in the array
InSeq(x, seq) == \E i \in 1..Len(seq) : seq[i] = x

\* the elements of an array
Elems(seq) == { seq[i] : i \in 1..Len(seq) }

\* a is b with some elements left out, order kept
IsSubSeq(a, b) ==
    LET Keep(x) == InSeq(x, a) IN a = SelectSeq(b, Keep)

\* the weekday name of calendar day d; 2025-01-01 is a Wednesday
DayNames == <<wednesday, thursday, friday, saturday, sunday, monday, tuesday>>
WeekdayName(d) == DayNames[((d - 1) % 7) + 1]

\* the weekday names a row carries
WeekdaySet(e) == IF Truthy(e.weekdays) THEN Elems(Split(e.weekdays, ",")) ELSE {}

\* the calendar day that was clicked
ClickedDay == LocalDay(selectedDate)

\* the row has an end date that is not before its start date
HasRange(e) == e.end_date # NoDate /\ e.date <= e.end_date

\* the row's end date is before its start date
Inverted(e) == e.end_date # NoDate /\ e.end_date < e.date

-----------------------------------------------------------------------------
(* C1: the calendar never shows a recurring row whose weekdays are null or  *)
(* the empty string, on any day, also not inside its date range.            *)
C1_EmptyWeekdaysNeverActive ==
    selectedDate # NoDate =>
        \A e \in Elems(CalendarEntries) :
            (e.is_recurring = "true" /\ ~Truthy(e.weekdays))
                => ~InSeq(e, SelectedDateEntries)

(* C2: a recurring row with a non-empty weekdays set and a date range       *)
(* startDate <= endDate is shown on day d exactly when d lies in the range  *)
(* (both ends included) and the weekday name of d is one of its weekdays.   *)
C2_RecurringActiveIffRangeAndWeekday ==
    selectedDate # NoDate =>
        \A e \in Elems(CalendarEntries) :
            (e.is_recurring = "true" /\ Truthy(e.weekdays) /\ HasRange(e))
                => ( InSeq(e, SelectedDateEntries)
                     <=> /\ e.date <= ClickedDay
                         /\ ClickedDay <= e.end_date
                         /\ WeekdayName(ClickedDay) \in WeekdaySet(e) )

\* a row that recurs on Mondays over a range of more than a week is shown
\* on the second Monday of the range
C2_Witness ==
    /\ selectedDate # NoDate
    /\ ClickedDay = 13
    /\ \E e \in Elems(SelectedDateEntries) :
           e.is_recurring = "true" /\ e.weekdays = monday /\ e.date = 2

(* C3: a row with is_recurring = false and a date range startDate <=        *)
(* endDate is shown on day d exactly when d lies in the range, both ends    *)
(* included, whatever weekdays value it carries.                            *)
C3_NonRecurringActiveIffInRange ==
    selectedDate # NoDate =>
        \A e \in Elems(CalendarEntries) :
            (e.is_recurring = "false" /\ HasRange(e))
                => ( InSeq(e, SelectedDateEntries)
                     <=> (e.date <= ClickedDay /\ ClickedDay <= e.end_date) )

\* a single-day row that is not recurring but carries weekdays = monday is
\* shown on its day, a Thursday
C3_Witness ==
    /\ selectedDate # NoDate
    /\ ClickedDay = 2
    /\ \E e \in Elems(SelectedDateEntries) :
           /\ e.is_recurring = "false" /\ e.weekdays = monday
           /\ e.date = 2 /\ e.end_date = 2

(* C4: a row whose endDate is before its startDate is treated as spanning   *)
(* startDate only: the date filter returns it for onDate = startDate and    *)
(* for no other date, and the calendar shows it on startDate and on no      *)
(* other day.                                                               *)
C4_InvertedRangeClampedToStart ==
    \A e \in Elems(entries) :
        (Inverted(e) /\ e.is_recurring = "false") =>
            /\ searchDate # NoDate =>
                   (InSeq(e, FilteredEntries) <=> searchDate = e.date)
            /\ (selectedDate # NoDate /\ InSeq(e, CalendarEntries)) =>
                   (InSeq(e, SelectedDateEntries) <=> ClickedDay = e.date)

-----------------------------------------------------------------------------
(* Vocabulary of the filter properties *)

Filtered == Filter(entries, Criteria)

\* the criteria with one of them unset
WithoutDate == [Criteria EXCEPT !.searchDate = NoDate]
WithoutTime == [Criteria EXCEPT !.searchTime = EmptyStr]
WithoutWeekdays == [Criteria EXCEPT !.selectedWeekdays = <<>>]

\* minutes since midnight of 'HH:MM' or 'HH:MM:SS'
Digit(ch) == CharCode(ch) - CharCode("0")
TimeOfDay(t) == (Digit(t[1]) * 10 + Digit(t[2])) * 60 + Digit(t[4]) * 10 + Digit(t[5])

\* the row satisfies every criterion that is set
SatisfiesEverySetCriterion(e) ==
    /\ Truthy(searchTerm) => MatchesSearch(e, Criteria)
    /\ filterShiftType # all => MatchesShiftType(e, Criteria)
    /\ filterLocation # all => MatchesLocation(e, Criteria)
    /\ filterMobile # all => MatchesMobile(e, Criteria)
    /\ filterRecurring # all => MatchesRecurring(e, Criteria)
    /\ Len(selectedWeekdays) > 0 => MatchesWeekdays(e, Criteria)
    /\ searchDate # NoDate => MatchesDate(e, Criteria)
    /\ Truthy(searchTime) => MatchesTime(e, Criteria)

\* c2 is c1 with criteria added: what c1 sets, c2 sets to the same value
Extends(c1, c2) ==
    /\ Truthy(c1.searchTerm) => c2.searchTerm = c1.searchTerm
    /\ c1.filterShiftType # all => c2.filterShiftType = c1.filterShiftType
    /\ c1.filterLocation # all => c2.filterLocation = c1.filterLocation
    /\ c1.filterMobile # all => c2.filterMobile = c1.filterMobile
    /\ c1.filterRecurring # all => c2.filterRecurring = c1.filterRecurring
    /\ Len(c1.selectedWeekdays) > 0 => c2.selectedWeekdays = c1.selectedWeekdays
    /\ c1.searchDate # NoDate => c2.searchDate = c1.searchDate
    /\ Truthy(c1.searchTime) => c2.searchTime = c1.searchTime

-----------------------------------------------------------------------------
C7_FilterMonotone ==
    [][ (entries' = entries /\ Extends(Criteria, Criteria'))
            => LET before == Filter(entries, Criteria)
                   after  == Filter(entries', Criteria')
               IN  IsSubSeq(after, before) /\ Len(after) <= Len(before) ]_vars

\* a date criterion on top of a search criterion has removed a row
C7_Witness ==
    /\ Truthy(searchTerm) /\ searchDate # NoDate
    /\ Len(Filtered) >= 1
    /\ Len(Filtered) < Len(Filter(entries, WithoutDate))

(* C8: under the time criterion a row with both time bounds is returned    *)
(* exactly when startTime <= atTime <= endTime as times of day, both ends  *)
(* included, and a row with no time bounds is not constrained.             *)
C8_TimeFilterInclusive ==
    Truthy(searchTime) =>
        \A e \in Elems(entries) :
            /\ (Truthy(e.start_time) /\ Truthy(e.end_time)) =>
                   ( InSeq(e, Filtered)
                     <=> /\ InSeq(e, Filter(entries, WithoutTime))
                         /\ TimeOfDay(e.start_time) <= TimeOfDay(searchTime)
                         /\ TimeOfDay(searchTime) <= TimeOfDay(e.end_time) )
            /\ (~Truthy(e.start_time) /\ ~Truthy(e.end_time)) =>
                   (InSeq(e, Filtered) <=> InSeq(e, Filter(entries, WithoutTime)))

(* C9: under a non-empty weekday selection a row is returned exactly when  *)
(* it is recurring and its weekdays share a weekday with the selection; a  *)
(* row that is not recurring is never returned.                            *)
C9_WeekdayFilterRecurringOnly ==
    Len(selectedWeekdays) > 0 =>
        \A e \in Elems(entries) :
            InSeq(e, Filtered)
                <=> /\ InSeq(e, Filter(entries, WithoutWeekdays))
                    /\ e.is_recurring = "true"
                    /\ WeekdaySet(e) \cap Elems(selectedWeekdays) # {}

(* C10: under the date criterion a row with an end date is returned        *)
(* exactly when startDate <= onDate <= endDate as calendar dates, both     *)
(* ends included.                                                          *)
C10_DateFilterInclusive ==
    searchDate # NoDate =>
        \A e \in Elems(entries) :
            e.end_date # NoDate =>
                ( InSeq(e, Filtered)
                  <=> /\ InSeq(e, Filter(entries, WithoutDate))
                      /\ e.date <= searchDate
                      /\ searchDate <= e.end_date )

\* the date criterion equals the end date of a row of several days, and the
\* row is returned
C10_Witness ==
    /\ searchDate # NoDate
    /\ \E e \in Elems(Filtered) : e.date < e.end_date /\ e.end_date = searchDate

-----------------------------------------------------------------------------
(* Vocabulary: rows by identity *)

\* the ids of the rows of an array, in order
Ids(list) == [i \in 1..Len(list) |-> list[i].id]

\* the snapshot in which every absent end date is written as the start date
WithEndAtStart(list) ==
    [i \in 1..Len(list) |->
        IF list[i].end_date = NoDate
        THEN [list[i] EXCEPT !.end_date = list[i].date] ELSE list[i]]

(* C11: a row without end date behaves like the same row with endDate =     *)
(* startDate: the filter and the calendar return the same rows for the      *)
(* snapshot and for the snapshot with the end dates written out; the date   *)
(* filter returns the row exactly for onDate = startDate, and the calendar  *)
(* shows it on no day but startDate (on startDate when it is not            *)
(* recurring).                                                              *)
C11_AbsentEndIsStart ==
    LET written == SortEntries(Filter(WithEndAtStart(entries), Criteria),
                               sortField, sortDirection)
    IN  /\ Ids(FilteredEntries) = Ids(written)
        /\ selectedDate # NoDate =>
               Ids(SelectedDateEntries) = Ids(GetEntriesForDate(written, selectedDate))
        /\ \A e \in Elems(entries) :
               e.end_date = NoDate =>
                   /\ searchDate # NoDate =>
                          (InSeq(e, FilteredEntries) <=> searchDate = e.date)
                   /\ (selectedDate # NoDate /\ InSeq(e, SelectedDateEntries))
                          => ClickedDay = e.date
                   /\ ( /\ selectedDate # NoDate
                        /\ InSeq(e, CalendarEntries)
                        /\ e.is_recurring # "true" )
                          => (InSeq(e, SelectedDateEntries) <=> ClickedDay = e.date)

\* the date filter is set to the start date of a row without end date, the
\* start date is clicked, the row is shown, and another row was filtered out
C11_Witness ==
    /\ searchDate # NoDate /\ selectedDate # NoDate
    /\ Len(FilteredEntries) < Len(entries)
    /\ \E e \in Elems(SelectedDateEntries) :
           /\ e.end_date = NoDate /\ e.is_recurring = "false"
           /\ e.date = searchDate /\ e.date = ClickedDay

-----------------------------------------------------------------------------
(* Vocabulary of the location properties *)

WithoutLocation == [Criteria EXCEPT !.filterLocation = all]

\* the labels of a comma-joined string: the stretches between commas (or
\* the ends of the string), without the blanks around them
LabelsOf(s) ==
    { Trim(SubSeq(s, i, j)) :
        <<i, j>> \in { p \in (1..(Len(s) + 1)) \X (0..Len(s)) :
                         /\ p[2] >= p[1] - 1
                         /\ p[1] = 1 \/ s[p[1] - 1] = ","
                         /\ p[2] = Len(s) \/ s[p[2] + 1] = ","
                         /\ \A k \in p[1]..p[2] : s[k] # "," } }

(* C12: under a location criterion a row is returned exactly when the       *)
(* criterion is one of the row's trimmed comma-separated labels, as a whole *)
(* label; with the criteria location and mobile = yes alone, the rows       *)
(* returned are those that carry the label and have mobile yes.             *)
C12_LocationIsWholeLabel ==
    filterLocation # all =>
        \A e \in Elems(entries) :
            /\ InSeq(e, Filtered)
                   <=> /\ InSeq(e, Filter(entries, WithoutLocation))
                       /\ filterLocation \in LabelsOf(e.location)
            /\ (filterMobile = yes /\ GetActiveFiltersCount = 2) =>
                   ( InSeq(e, Filtered)
                     <=> /\ filterLocation \in LabelsOf(e.location)
                         /\ e.mobile_deployable = yes )

\* location and mobile = yes are set; the row with two labels and mobile yes
\* is returned, the row with the label alone and no mobile yes is not
C12_Witness ==
    /\ filterLocation = Koeln /\ filterMobile = yes
    /\ Len(entries) = 2 /\ Len(Filtered) = 1
    /\ LabelsOf(Filtered[1].location) = { Koeln, Essen }
    /\ \E e \in Elems(entries) :
           LabelsOf(e.location) = { Koeln } /\ e.mobile_deployable # yes

(* C13: the labels derived from a row's comma-joined location string, and   *)
(* the labels gathered from all rows, contain no empty label and no label   *)
(* twice; so under a location criterion a row without any label is not      *)
(* returned, and without a location criterion it is returned exactly when   *)
(* it satisfies the other criteria.                                         *)
C13_LabelsNonEmptyAndDistinct ==
    /\ ~ArrIncludes(Locations, EmptyStr)
    /\ \A i, j \in 1..Len(Locations) : i # j => Locations[i] # Locations[j]
    /\ \A e \in Elems(entries) :
           /\ ~ArrIncludes(LocationLabels(e), EmptyStr)
           /\ \A i, j \in 1..Len(LocationLabels(e)) :
                  i # j => LocationLabels(e)[i] # LocationLabels(e)[j]
           /\ (filterLocation # all /\ LabelsOf(e.location) \subseteq {EmptyStr})
                  => ~InSeq(e, Filtered)
           /\ filterLocation = all =>
                  (InSeq(e, Filtered) <=> SatisfiesEverySetCriterion(e))

-----------------------------------------------------------------------------
(* Vocabulary of the search property *)

WithoutSearch == [Criteria EXCEPT !.searchTerm = EmptyStr]

\* the value of a field that may be null
TextOf(f) == IF f = NULL THEN EmptyStr ELSE f

\* the text occurs in the value, letter case aside
OccursIn(text, value) ==
    \E off \in 0..(Len(value) - Len(text)) :
        \A k \in 1..Len(text) : ToLowerChar(value[off + k]) = ToLowerChar(text[k])

\* the eight searched values of a row
SearchedValues(e) ==
    { e.first_name \o <<" ">> \o e.last_name, e.phone_number, e.location,
      TextOf(e.notes), TextOf(e.shift_type), TextOf(e.weekdays),
      e.guard_id_number, e.e_pin_number }

(* C14: under a search text a row is returned exactly when the text occurs, *)
(* letter case aside, in the owner's full name, the phone number, the       *)
(* location string, the notes, the shift type, the weekdays string, the     *)
(* guard id number or the e-pin number; a null field counts as the empty    *)
(* string.                                                                  *)
C14_SearchAnyFieldCaseInsensitive ==
    Truthy(searchTerm) =>
        \A e \in Elems(entries) :
            InSeq(e, Filtered)
                <=> /\ InSeq(e, Filter(entries, WithoutSearch))
                    /\ \E value \in SearchedValues(e) : OccursIn(searchTerm, value)

\* the text 'p9' finds the row whose e-pin number is 'P9' and whose notes
\* and weekdays are null, and not the other row
C14_Witness ==
    /\ searchTerm = <<"p","9">>
    /\ Len(entries) = 2 /\ Len(Filtered) = 1
    /\ Filtered[1].e_pin_number = <<"P","9">>
    /\ Filtered[1].notes = NULL /\ Filtered[1].weekdays = NULL

-----------------------------------------------------------------------------
(* Vocabulary of the sort properties *)

\* the sort key of a row under a field: full name, start date, location
\* string, shift type (absent: empty), creation time (absent: the epoch)
SortKey(e, field) ==
    CASE field = "name"       -> e.first_name \o <<" ">> \o e.last_name
      [] field = "date"       -> e.date
      [] field = "location"   -> e.location
      [] field = "shift_type" -> TextOf(e.shift_type)
      [] field = "created_at" -> IF e.created_at = NoDate THEN EpochTime ELSE e.created_at

\* the array back to front
Reverse(seq) == [i \in 1..Len(seq) |-> seq[Len(seq) + 1 - i]]

(* C15: for every sort field and both directions, two rows with equal sort  *)
(* keys stand in the sorted output in the order they had in the input.      *)
C15_SortStable ==
    \A field \in SortFields, direction \in {"asc", "desc"} :
        LET out == SortEntries(Filtered, field, direction)
        IN  \A i, j \in 1..Len(out) :
                (i < j /\ SortKey(out[i], field) = SortKey(out[j], field))
                    => out[i].id < out[j].id

\* the table is sorted by shift type, descending; two rows with the same
\* shift type stand behind a row with another one, in their input order
C15_Witness ==
    /\ sortField = "shift_type" /\ sortDirection = "desc"
    /\ Len(FilteredEntries) = 3
    /\ FilteredEntries[2].shift_type = FilteredEntries[3].shift_type
    /\ FilteredEntries[1].shift_type # FilteredEntries[2].shift_type
    /\ FilteredEntries[1].id = 2
    /\ FilteredEntries[2].id = 1 /\ FilteredEntries[3].id = 3

\* the rows of the array have pairwise different sort keys
DistinctKeys(list, field) ==
    \A i, j \in 1..Len(list) :
        i # j => SortKey(list[i], field) # SortKey(list[j], field)

(* C16: for every sort field, when the sort keys of the rows are pairwise   *)
(* different, sorting the ascending result in descending order gives the    *)
(* ascending result back to front; so does the table when its direction is  *)
(* switched to descending.                                                  *)
C16_DescendingIsReverse ==
    /\ \A field \in SortFields :
           DistinctKeys(Filtered, field) =>
               LET ascending == SortEntries(Filtered, field, "asc")
               IN  SortEntries(ascending, field, "desc") = Reverse(ascending)
    /\ (sortDirection = "desc" /\ DistinctKeys(Filtered, sortField)) =>
           FilteredEntries = Reverse(SortEntries(Filtered, sortField, "asc"))

\* three rows with different names, sorted by name descending, in an order
\* that is neither the snapshot's nor the ascending one
C16_Witness ==
    /\ sortField = "name" /\ sortDirection = "desc"
    /\ Len(FilteredEntries) = 3
    /\ DistinctKeys(Filtered, "name")
    /\ FilteredEntries # Filtered
    /\ FilteredEntries # SortEntries(Filtered, "name", "asc")
    /\ FilteredEntries = Reverse(SortEntries(Filtered, "name", "asc"))

\* the first key does not come after the second: string keys by collation,
\* dates and timestamps by value
KeyLeq(k1, k2, field) ==
    IF field \in {"date", "created_at"} THEN k1 <= k2
    ELSE LocaleCompare(k1, k2) <= 0

(* C17: the sorted table is a permutation of the filtered rows, ordered by  *)
(* the key of the selected field (full name, start date as a date, location *)
(* string, shift type, creation time): non-decreasing when ascending,       *)
(* non-increasing when descending.                                          *)
C17_SortPermutationOrderedByKey ==
    /\ Len(FilteredEntries) = Len(Filtered)
    /\ Elems(Ids(FilteredEntries)) = Elems(Ids(Filtered))
    /\ \A e \in Elems(FilteredEntries) : InSeq(e, Filtered)
    /\ \A i \in 1..(Len(FilteredEntries) - 1) :
           LET k1 == SortKey(FilteredEntries[i], sortField)
               k2 == SortKey(FilteredEntries[i + 1], sortField)
           IN  IF sortDirection = "asc" THEN KeyLeq(k1, k2, sortField)
               ELSE KeyLeq(k2, k1, sortField)

\* three rows sorted by location, ascending, in an order that is not the
\* snapshot's
C17_Witness ==
    /\ sortField = "location" /\ sortDirection = "asc"
    /\ Len(FilteredEntries) = 3
    /\ FilteredEntries # Filtered
    /\ LocaleCompare(FilteredEntries[1].location, FilteredEntries[3].location) < 0

\* the row has no shift type / no creation time
AbsentShiftType(e) == e.shift_type = NULL \/ e.shift_type = EmptyStr
AbsentCreatedAt(e) == e.created_at = NoDate

(* C18: sorted by shift type ascending, every row without shift type stands *)
(* before every row with a shift type; sorted by creation time ascending,   *)
(* every row without creation time stands before every row created after   *)
(* the epoch.                                                               *)
C18_AbsentKeysFirstAscending ==
    sortDirection = "asc" =>
        \A i, j \in 1..Len(FilteredEntries) :
            /\ ( /\ sortField = "shift_type"
                 /\ AbsentShiftType(FilteredEntries[i])
                 /\ ~AbsentShiftType(FilteredEntries[j]) ) => i < j
            /\ ( /\ sortField = "created_at"
                 /\ AbsentCreatedAt(FilteredEntries[i])
                 /\ ~AbsentCreatedAt(FilteredEntries[j])
                 /\ FilteredEntries[j].created_at > EpochTime ) => i < j

\* sorted by shift type ascending: a row with a null and a row with an
\* empty shift type have moved in front of a row with a shift type
C18_Witness ==
    /\ sortField = "shift_type" /\ sortDirection = "asc"
    /\ Len(FilteredEntries) = 3
    /\ FilteredEntries[1].shift_type = NULL
    /\ FilteredEntries[2].shift_type = EmptyStr
    /\ FilteredEntries[3].shift_type = earlyShift
    /\ FilteredEntries[3].id = 1

-----------------------------------------------------------------------------
(* Vocabulary of the properties about values outside the declared types *)

\* the row lacks its start date or its location
Malformed(e) == e.date = NoDate \/ e.location = NULL

-----------------------------------------------------------------------------
(* Vocabulary of the sort selection *)

\* the other direction
Flip(direction) == IF direction = "asc" THEN "desc" ELSE "asc"

(* C24: the direction is ascending at first; handleSort on the selected     *)
(* field flips the direction and keeps the field, so twice in a row it      *)
(* restores the direction; handleSort on another field selects the field    *)
(* and sets the direction to ascending, whatever it was.                    *)
C24_SortSelection ==
    /\ sortDirection = "asc"
    /\ [][ \A field \in SortFields :
               HandleSort(field) =>
                   IF field = sortField
                   THEN /\ sortField' = sortField
                        /\ sortDirection' = Flip(sortDirection)
                        /\ Flip(sortDirection') = sortDirection
                   ELSE /\ sortField' = field
                        /\ sortDirection' = "asc" ]_vars

\* a field other than the initial one is selected and its direction has
\* been flipped to descending
C24_Witness == sortField = "name" /\ sortDirection = "desc"

-----------------------------------------------------------------------------
(* Vocabulary of the overnight window *)

\* the times 'HH:00' of a day
HourTimes ==
    { HHMM(h[1], h[2], "0", "0") :
        h \in ({"0", "1"} \X {"0","1","2","3","4","5","6","7","8","9"})
                 \cup ({"2"} \X {"0","1","2","3"}) }

\* the row's end time is earlier than its start time
OvernightWindow(e) ==
    /\ Truthy(e.start_time) /\ Truthy(e.end_time)
    /\ TimeOfDay(e.end_time) < TimeOfDay(e.start_time)

(* C28: a row whose end time is earlier than its start time (22:00 to       *)
(* 06:00) is returned under no time criterion: not under the one that is    *)
(* set, and under none of the 24 full hours, 23:00 and 02:00 included.      *)
C28_OvernightWindowNeverMatches ==
    \A e \in Elems(entries) :
        OvernightWindow(e) =>
            /\ Truthy(searchTime) => ~InSeq(e, Filtered)
            /\ \A t \in HourTimes :
                   ~InSeq(e, Filter(entries, [Criteria EXCEPT !.searchTime = t]))

\* the time criterion is 23:00, inside the window of a 22:00 to 06:00 row,
\* and the row is not returned while the row without times is
C28_Witness ==
    /\ searchTime = HHMM("2","3","0","0")
    /\ Len(entries) = 2 /\ Len(Filtered) = 1
    /\ \E e \in Elems(entries) :
           /\ e.start_time = HHMMSS("2","2","0","0")
           /\ e.end_time = HHMMSS("0","6","0","0")
           /\ ~InSeq(e, Filtered)

-----------------------------------------------------------------------------
(* Vocabulary of the reset *)

\* no criterion constrains the result: every criterion has its neutral value
Unconstrained ==
    /\ searchTerm = EmptyStr /\ searchTime = EmptyStr /\ searchDate = NoDate
    /\ filterShiftType = all /\ filterLocation = all
    /\ filterMobile = all /\ filterRecurring = all
    /\ Len(selectedWeekdays) = 0

(* C29: in every state the count of active filters is 0 exactly when no     *)
(* criterion constrains the result; and from every state resetAllFilters    *)
(* leads to a count of 0 and a result that holds every row of the           *)
(* snapshot, with the sort field and direction as they were.                *)
C29_ResetClearsFilters ==
    /\ [](GetActiveFiltersCount = 0 <=> Unconstrained)
    /\ [][ ResetAllFilters =>
               /\ GetActiveFiltersCount' = 0
               /\ Filter(entries', Criteria') = entries'
               /\ entries' = entries
               /\ sortVars' = sortVars ]_vars

\* two criteria are set, one of them the weekday selection, and they drop a
\* row: a state from which resetAllFilters is taken
C29_Witness ==
    /\ GetActiveFiltersCount = 2
    /\ Len(selectedWeekdays) > 0
    /\ Len(Filtered) < Len(entries)

-----------------------------------------------------------------------------
(* C21: evaluating the filter, the sort and the calendar never changes the  *)
(* snapshot: over every step, with any criteria, sort field, direction and  *)
(* clicked day, the entries array holds the same rows in the same order,    *)
(* every row with the same field values.                                    *)
C21_InputNeverModified ==
    [][ /\ Len(entries') = Len(entries)
        /\ \A i \in 1..Len(entries) : entries'[i] = entries[i] ]_vars

\* no criterion is set, a day is clicked, and the table is sorted into an
\* order that is not the order of the snapshot
C21_Witness ==
    /\ Unset /\ selectedDate # NoDate
    /\ sortField = "name" /\ sortDirection = "desc"
    /\ Len(entries) = 3
    /\ FilteredEntries # entries
    /\ Len(SelectedDateEntries) >= 1

-----------------------------------------------------------------------------
(* C26: every row the form has written with is_recurring = true carries a   *)
(* weekdays value that names at least one weekday and only weekdays.        *)
C26_RecurringRowsHaveWeekdays ==
    \A i \in 1..Len(availability) :
        availability[i].is_recurring = "true" =>
            /\ availability[i].weekdays # NULL
            /\ availability[i].weekdays # EmptyStr
            /\ LabelsOf(availability[i].weekdays) \subseteq Elems(DayNames)

-----------------------------------------------------------------------------
(* C27: with today's cell of the calendar clicked, the 'available today'    *)
(* card shows the number of records the calendar lists for that day.        *)
C27_AvailableTodayIsCalendarCount ==
    selectedDate = ParseISO(today) =>
        AvailableToday = Len(SelectedDateEntries)

-----------------------------------------------------------------------------
(* C23: the people count of every calendar cell is the number of distinct   *)
(* owners (user_id) among the records active on that day.                   *)
OwnersActiveOn(day) ==
    LET dayEntries == GetEntriesForDate(CalendarEntries, day)
    IN  { dayEntries[i].user_id : i \in 1..Len(dayEntries) }

C23_PeopleCountIsDistinctOwners ==
    \A d \in Days : UniqueEmployees(ParseISO(d)) = Cardinality(OwnersActiveOn(ParseISO(d)))

-----------------------------------------------------------------------------
(* C22: the merged data of a finished fetch has one row per fetched row, in *)
(* the fetched order and with the fetched columns; the five owner fields    *)
(* are those of the profile whose id is the row's user_id (null read as     *)
(* ''), and all '' when the user_id is null or has no profile.              *)
OwnerProfiles(row, profilesData) ==
    { j \in 1..Len(profilesData) : profilesData[j].id = row.user_id }

C22_MergeKeepsRowsAndOwners ==
    \A i \in 1..Len(fetches) :
        fetches[i].pc = "done" =>
            LET a == fetches[i].availabilityData
                p == fetches[i].profilesData
                m == fetches[i].mergedData
            IN  /\ Len(m) = Len(a)
                /\ \A k \in 1..Len(a) :
                       /\ \A col \in RawColumns : m[k][col] = a[k][col]
                       /\ \A j \in OwnerProfiles(a[k], p) :
                              \A f \in ProfileFields : m[k][f] = OrEmpty(p[j][f])
                       /\ OwnerProfiles(a[k], p) = {} =>
                              \A f \in ProfileFields : m[k][f] = EmptyStr

\* a finished fetch merged a row with its profile, next to a row without owner
C22_Witness ==
    \E i \in 1..Len(fetches) :
        /\ fetches[i].pc = "done"
        /\ Len(fetches[i].profilesData) = 2
        /\ \E k, l \in 1..Len(fetches[i].mergedData) :
               /\ fetches[i].mergedData[k].first_name = Ana.first_name
               /\ fetches[i].mergedData[l].user_id = NULL

-----------------------------------------------------------------------------
(* C25: when every call of fetchEntries has returned and the call started   *)
(* last has succeeded, entries is that call's merged data; and no call      *)
(* writes entries after a call started later has written them.              *)
AllReturned == \A i \in 1..Len(fetches) : fetches[i].pc \in Returned

C25_NewestSnapshotAdopted ==
    /\ [](AllReturned /\ fetches[Len(fetches)].pc = "done" =>
              entries = fetches[Len(fetches)].mergedData)
    /\ [][ \A i \in 1..Len(fetches) :
               (ProfilesReturns(i) /\ \E j \in (i + 1)..Len(fetches) : fetches[j].pc = "done")
                   => entries' = entries ]_vars

-----------------------------------------------------------------------------
(* C30: a call of fetchEntries whose query fails leaves entries as they     *)
(* are and has never written them, and loading is false once a call has     *)
(* returned, either way.                                                    *)
C30_FailedFetchKeepsEntries ==
    /\ []((\E i \in 1..Len(fetches) : fetches[i].pc \in Returned) => loading = FALSE)
    /\ []((\A i \in 1..Len(fetches) : fetches[i].pc # "done") => entries = <<>>)
    /\ [][ \A i \in 1..Len(fetches) :
               (fetches[i].pc \notin Returned /\ fetches'[i].pc = "failed")
                   => entries' = entries /\ loading' = FALSE ]_vars

\* the profiles query of a later call failed after an earlier call had
\* filled entries
C30_Witness ==
    /\ Len(fetches) >= 2
    /\ fetches[1].pc = "done"
    /\ fetches[2].pc = "failed"
    /\ fetches[2].availabilityData # fetches[1].availabilityData
    /\ entries = fetches[1].mergedData
    /\ entries # <<>>

====
